---- MODULE Spec2Model ----
(***************************************************************************)
(* Model of salt/keystores/mysql_keystore.py: the MySQL key store          *)
(* Mysql_key.  The table `minions` is a set of rows; every public method   *)
(* is one action that runs the whole method body, query by query, against  *)
(* the table.  Names and patterns are sequences of one-character strings,  *)
(* so that the regular-expression matching of name_match is computed and   *)
(* not assumed.                                                            *)
(***************************************************************************)
EXTENDS Integers, Sequences, FiniteSets, TLC

VARIABLES
    minions,   \* the rows of the table `minions`
    old,       \* the rows of the table when the last call started
    call,      \* the last call: its method and its arguments
    ret,       \* what the last call returned or raised
    opts,      \* the master configuration the store was made with
    running    \* per operator, the method it is in and the minions left to do

vars == <<minions, old, call, ret, opts, running>>

(***************************************************************************)
(* Bounds of the model.                                                    *)
(***************************************************************************)
\* The largest number of rows the table holds.
MaxRows == 2

(***************************************************************************)
(* Values.                                                                 *)
(***************************************************************************)
\* The four states a minion can be in (class attributes of Mysql_key).
ACC == "acc"
PEND == "pre"
REJ == "rej"
DEN == "den"

\* The enum of the column `state`.
StateEnum == {ACC, REJ, DEN, PEND}

\* The enum of the column `key_type`.
KeyTypeEnum == {"zmq", "raet"}

\* The public keys minions submit, each with its key type (opaque to the
\* store).
SubmittedKeys ==
    { [minion_key |-> "QRSTUVWXY", key_type |-> "zmq"],
      [minion_key |-> "123456789", key_type |-> "raet"] }

\* Minion ids that callers use: "w-0", "w0", "wx".
MinionIds == { <<"w", "-", "0">>, <<"w", "0">>, <<"w", "x">> }

\* Python's None, and a present optional argument.
None == <<>>
Some(x) == <<x>>

\* The empty dict, and the empty tuple cursor.fetchall() gives for a
\* statement that returns no rows.
EmptyDict == <<>>
NoData == <<>>

\* MySQL error numbers that run_query tells apart.
ER_GENERIC == 0
ER_DUP_ENTRY == 1062
ER_PARSE_ERROR == 1064

\* error_map: the message for each known MySQL error number.
error_map ==
    [code \in {ER_GENERIC, ER_DUP_ENTRY, ER_PARSE_ERROR} |->
        CASE code = ER_GENERIC -> "There was an error during a mysql-operation"
          [] code = ER_DUP_ENTRY -> "Minion {0} already exists in database"
          [] code = ER_PARSE_ERROR ->
                "Failed to add minion, mysql reported a syntax error"]

(***************************************************************************)
(* Strings: order, sorting, and the string methods name_match uses.        *)
(***************************************************************************)
\* The character code of a character (ASCII), which orders strings.
Ord(c) ==
    CASE c = "*" -> 42
      [] c = "," -> 44
      [] c = "-" -> 45
      [] c = "." -> 46
      [] c = "0" -> 48
      [] c = "w" -> 119
      [] c = "x" -> 120

\* a < b for strings: the order of the primary key index and of isorted
\* (all characters used are lower case, so lower() changes nothing).
RECURSIVE StrLess(_, _)
StrLess(a, b) ==
    IF b = <<>> THEN FALSE
    ELSE IF a = <<>> THEN TRUE
    ELSE IF Ord(Head(a)) # Ord(Head(b)) THEN Ord(Head(a)) < Ord(Head(b))
    ELSE StrLess(Tail(a), Tail(b))

\* The elements of a sequence.
Range(s) == { s[i] : i \in DOMAIN s }

\* The strings of a set as a sorted sequence.
RECURSIVE SortedSeq(_)
SortedSeq(S) ==
    IF S = {} THEN <<>>
    ELSE LET least == CHOOSE x \in S : \A y \in S \ {x} : StrLess(x, y)
         IN <<least>> \o SortedSeq(S \ {least})

\* salt.utils.isorted(keys): the list sorted by name.
isorted(keys) == SortSeq(keys, StrLess)

\* match.endswith('*')
EndsWithStar(match) == Len(match) > 0 /\ match[Len(match)] = "*"

\* match.strip('*'): every leading and every trailing '*' removed.
RECURSIVE LStripStar(_)
LStripStar(s) ==
    IF s # <<>> /\ Head(s) = "*" THEN LStripStar(Tail(s)) ELSE s

RECURSIVE RStripStar(_)
RStripStar(s) ==
    IF s # <<>> /\ s[Len(s)] = "*"
    THEN RStripStar(SubSeq(s, 1, Len(s) - 1))
    ELSE s

StripStar(s) == RStripStar(LStripStar(s))

\* match.split(','): the pieces between the commas.
RECURSIVE SplitFrom(_, _)
SplitFrom(s, piece) ==
    IF s = <<>> THEN <<piece>>
    ELSE IF Head(s) = "," THEN <<piece>> \o SplitFrom(Tail(s), <<>>)
    ELSE SplitFrom(Tail(s), Append(piece, Head(s)))

Split(s) == SplitFrom(s, <<>>)

(***************************************************************************)
(* The table and the SQL statements the methods send.  Each statement      *)
(* gives the error number MySQL answers with (None when it succeeds), the  *)
(* rows it returns and the table after it.                                 *)
(***************************************************************************)
\* A row of the table `minions`.
Row(minion_id, minion_key, key_type, state) ==
    [minion_id |-> minion_id, minion_key |-> minion_key,
     key_type |-> key_type, state |-> state]

\* The ids stored in a table.
Ids(t) == { r.minion_id : r \in t }

\* The row of an id.
RowOf(t, id) == CHOOSE r \in t : r.minion_id = id

\* The rows of a table in the order of the primary key.
RowsInOrder(t) == [i \in 1..Cardinality(t) |-> RowOf(t, SortedSeq(Ids(t))[i])]

\* Mutant of SqlInsert: the statement replaces a row that has the same id
\* (REPLACE INTO) instead of failing on the primary key.
SqlInsertReplacing(t, row) ==
    [errno |-> None, rows |-> NoData,
     table |-> { r \in t : r.minion_id # row.minion_id } \cup {row}]

\* INSERT INTO minions (minion_id, minion_key, key_type, state) VALUES (...):
\* minion_id is the PRIMARY KEY, a second row with the same id is error 1062.
SqlInsert(t, row) ==
    IF row.minion_id \in Ids(t)
    THEN [errno |-> Some(ER_DUP_ENTRY), rows |-> NoData, table |-> t]
    ELSE [errno |-> None, rows |-> NoData, table |-> t \cup {row}]

\* SELECT minion_id, state FROM minions
SqlSelectIdState(t) ==
    [errno |-> None,
     rows |-> [i \in 1..Cardinality(t) |->
                 <<RowsInOrder(t)[i].minion_id, RowsInOrder(t)[i].state>>],
     table |-> t]

\* UPDATE minions SET state=<state> WHERE ...; `where` is the set of rows the
\* WHERE clause holds for.
SqlUpdateState(t, state, where) ==
    [errno |-> None, rows |-> NoData,
     table |-> { IF r \in where THEN [r EXCEPT !.state = state] ELSE r : r \in t }]

\* DELETE FROM minions WHERE ...; `where` is the set of rows the WHERE clause
\* holds for.
SqlDelete(t, where) ==
    [errno |-> None, rows |-> NoData, table |-> t \ where]

\* A MySQL error number that error_map does not know (lock wait timeout).
ER_LOCK_WAIT_TIMEOUT == 1205

\* The statement for `minion` as the server answers it: `faults` are the
\* minions whose statement the server fails; a failed statement changes
\* nothing.
Statement(exec, t, minion, faults) ==
    IF minion \in faults
    THEN [errno |-> Some(ER_LOCK_WAIT_TIMEOUT), rows |-> NoData, table |-> t]
    ELSE exec

\* run_query: (True, data) when the statement succeeded, (False, message)
\* with the message of error_map when MySQL answered with an error.
run_query(exec) ==
    IF exec.errno # None
    THEN [ok |-> FALSE,
          data |-> IF exec.errno[1] \in DOMAIN error_map
                   THEN error_map[exec.errno[1]]
                   ELSE error_map[ER_GENERIC],
          table |-> exec.table]
    ELSE [ok |-> TRUE, data |-> exec.rows, table |-> exec.table]

(***************************************************************************)
(* Dicts are functions from keys to values.                                *)
(***************************************************************************)
\* d[key] = value
DictSet(d, key, value) ==
    [k \in DOMAIN d \cup {key} |-> IF k = key THEN value ELSE d[k]]

\* d without key (d.pop(key) returns d[key])
DictPop(d, key) == [k \in DOMAIN d \ {key} |-> d[k]]

\* The order in which the state keys of a dict are iterated.
StateOrder == <<ACC, PEND, REJ, DEN>>

\* The minions of a state -> minions dict, state after state:
\* "for state, minions in six.iteritems(matches): for minion in minions".
RECURSIVE ItemsFrom(_, _)
ItemsFrom(d, i) ==
    IF i > Len(StateOrder) THEN <<>>
    ELSE (IF StateOrder[i] \in DOMAIN d THEN d[StateOrder[i]] ELSE <<>>)
         \o ItemsFrom(d, i + 1)

Items(d) == ItemsFrom(d, 1)

\* What a method hands back: the exception it raised ("" when it returned)
\* with its arguments, the value it returned, the table it leaves, and
\* whether it called salt.crypt.dropfile.
Returned(value, t) ==
    [raised |-> "", msg |-> <<>>, value |-> value, table |-> t,
     dropfile |-> FALSE]
Raised(exception, msg, t) ==
    [raised |-> exception, msg |-> msg, value |-> EmptyDict, table |-> t,
     dropfile |-> FALSE]

\* trans_map of the decorator compat.
trans_map ==
    [key \in {ACC, REJ, PEND, DEN} |->
        CASE key = ACC -> "minions"
          [] key = REJ -> "minions_rejected"
          [] key = PEND -> "minions_pre"
          [] key = DEN -> "minions_denied"]

\* One step of compat's loop: d[trans_map[key]] = d.pop(key) if key in d.
CompatStep(d, key) ==
    IF key \in DOMAIN d THEN DictSet(DictPop(d, key), trans_map[key], d[key])
    ELSE d

\* compat: the dict returned by the wrapped method with its keys translated;
\* an exception of the wrapped method passes through.
compat(r) ==
    IF r.raised # "" THEN r
    ELSE [r EXCEPT !.value =
            CompatStep(CompatStep(CompatStep(CompatStep(r.value, ACC), REJ),
                                  PEND), DEN)]

\* What list_keys makes of the outcome of its query: the ids under their
\* states, the four states always present; AttributeError when it failed.
ListEntries(q) ==
    LET states == {ACC, PEND, REJ, DEN} \cup { q.data[i][2] : i \in DOMAIN q.data }
        bucket(s) ==
            LET at == SelectSeq([i \in DOMAIN q.data |-> i],
                                LAMBDA i : q.data[i][2] = s)
            IN [j \in DOMAIN at |-> q.data[at[j]][1]]
    IN IF q.ok
       THEN Returned([s \in states |-> bucket(s)], q.table)
       ELSE Raised("AttributeError", <<q.data>>, q.table)

\* list_keys: the outcome of its query, listed.
list_keys(t) == ListEntries(run_query(SqlSelectIdState(t)))

(***************************************************************************)
(* Regular expressions, as far as name_match builds them: literal          *)
(* characters, '.', '\w' and the repetition '*'.                           *)
(***************************************************************************)
\* The token for the escape sequence \w.
WordClass == "\\w"

\* The characters \w matches among those used.
WordChars == {"0", "w", "x"}

\* The expression as a list of atoms, each with its repetition; a '*' with
\* nothing to repeat, or after a repetition, does not compile.
RECURSIVE ReCompile(_, _)
ReCompile(tokens, atoms) ==
    IF tokens = <<>> THEN [ok |-> TRUE, atoms |-> atoms]
    ELSE IF Head(tokens) = "*"
    THEN IF atoms = <<>> \/ atoms[Len(atoms)].star
         THEN [ok |-> FALSE, atoms |-> <<>>]
         ELSE ReCompile(Tail(tokens),
                        [atoms EXCEPT ![Len(atoms)].star = TRUE])
    ELSE ReCompile(Tail(tokens),
                   Append(atoms, [c |-> Head(tokens), star |-> FALSE]))

\* Whether an atom matches a character.
AtomMatches(c, ch) ==
    IF c = "." THEN TRUE
    ELSE IF c = WordClass THEN ch \in WordChars
    ELSE c = ch

\* rematch('^' + match + '$', key): the atoms match the whole of key.
RECURSIVE ReMatch(_, _)
ReMatch(atoms, key) ==
    IF atoms = <<>> THEN key = <<>>
    ELSE IF Head(atoms).star
    THEN \/ ReMatch(Tail(atoms), key)
         \/ /\ key # <<>>
            /\ AtomMatches(Head(atoms).c, Head(key))
            /\ ReMatch(atoms, Tail(key))
    ELSE /\ key # <<>>
         /\ AtomMatches(Head(atoms).c, Head(key))
         /\ ReMatch(Tail(atoms), Tail(key))

\* The expression name_match matches with: a match that ends with '*' loses
\* its leading and trailing asterisks and gets '\w*' appended.
MatchExpr(match) ==
    IF EndsWithStar(match) THEN StripStar(match) \o <<WordClass, "*">>
    ELSE match

\* The loop of name_match over `matches`, the outcome of list_keys(): the
\* minions whose name the expression matches, under their states.  A match with a comma becomes a list, and
\* '^' + match + '$' with a list raises TypeError at the first key; an
\* expression that does not compile raises re.error at the first key.
MatchKeys(t, matches, expr) ==
    LET is_list == "," \in Range(expr) /\ Len(Split(expr)) > 0
        re == ReCompile(expr, <<>>)
        hits(status) ==
            SelectSeq(isorted(matches.value[status]),
                      LAMBDA key : ReMatch(re.atoms, key))
    IN IF matches.raised # "" THEN matches
       ELSE IF \A status \in DOMAIN matches.value : matches.value[status] = <<>>
       THEN Returned(EmptyDict, t)
       ELSE IF is_list
       THEN Raised("TypeError", <<"cannot concatenate 'str' and 'list' objects">>, t)
       ELSE IF ~re.ok THEN Raised("error", <<"nothing to repeat">>, t)
       ELSE Returned([status \in { s \in DOMAIN matches.value : hits(s) # <<>> }
                        |-> hits(status)], t)

\* name_match(match): the keys of list_keys() matched with the expression
\* made of match.
name_match(t, match) == MatchKeys(t, list_keys(t), MatchExpr(match))

\* dict_match: not implemented, returns the empty dict.
dict_match(t, match_dict) == Returned(EmptyDict, t)

(***************************************************************************)
(* The methods of Mysql_key.  Each takes the table and its arguments and   *)
(* gives what it returns or raises and the table it leaves.                *)
(***************************************************************************)
\* The key_state of add_key when the caller gives none.
KeyStateDefault == PEND

\* add_key: INSERT the minion; the message of a failed INSERT, formatted
\* with the minion id, is raised as AttributeError.
add_key(t, minion_id, minion_key, key_type, key_state) ==
    LET q == run_query(SqlInsert(t, Row(minion_id, minion_key, key_type,
                                        key_state)))
    IN IF q.ok THEN Returned(q.data, q.table)
       ELSE Raised("AttributeError", <<q.data, minion_id>>, q.table)

\* The matches a transition works on: those of name_match when a match is
\* given, else the match_dict as it is, else none.
Matches(t, match, match_dict) ==
    IF match # None THEN name_match(t, match[1])
    ELSE IF match_dict # None THEN Returned(match_dict[1], t)
    ELSE Returned(EmptyDict, t)

\* What accept and reject return: name_match(match) on the table they
\* leave, or dict_match(matches).
Rematched(t, match, matches) ==
    IF match # None THEN name_match(t, match[1]) ELSE dict_match(t, matches)

\* The query of accept and reject, formatted with args (args[1] is {1}):
\* "UPDATE {0} SET state='{1}' WHERE minion_id='{2}' AND state='{3}'", with
\* " OR state='{3}'" appended when the include flag is set.
TransitionQuery(t, args, include) ==
    SqlUpdateState(t, args[1],
                   { r \in t : \/ (r.minion_id = args[2] /\ r.state = args[3])
                               \/ (include /\ r.state = args[3]) })

\* Mutant of AcceptArgs: without the flag, the state the query requires is
\* 'rej' instead of 'pre'.
AcceptArgsRejected(minion, include_rejected) ==
    IF include_rejected THEN <<ACC, minion, PEND, REJ>>
    ELSE <<ACC, minion, REJ>>

\* The arguments accept formats its query with.
AcceptArgs(minion, include_rejected) ==
    IF include_rejected THEN <<ACC, minion, PEND, REJ>>
    ELSE <<ACC, minion, PEND>>

\* The loop of accept over the matched minions.
RECURSIVE AcceptEach(_, _, _, _)
AcceptEach(t, todo, include_rejected, faults) ==
    IF todo = <<>> THEN t
    ELSE AcceptEach(
            run_query(Statement(
                TransitionQuery(t, AcceptArgs(Head(todo), include_rejected),
                                include_rejected),
                t, Head(todo), faults)).table,
            Tail(todo), include_rejected, faults)

accept(t, match, match_dict, include_rejected, faults) ==
    LET matches == Matches(t, match, match_dict)
    IN IF matches.raised # "" THEN matches
       ELSE compat(Rematched(AcceptEach(t, Items(matches.value), include_rejected,
                                        faults),
                             match, matches.value))

\* Mutant of AcceptAllQuery: the query also requires the state 'rej'.
AcceptAllQueryRejected(t, key) ==
    SqlUpdateState(t, ACC, { r \in t : r.state = REJ /\ r.minion_id = key })

\* The query of accept_all: "UPDATE {0} set state='{1}' where minion_id='{2}'"
AcceptAllQuery(t, key) ==
    SqlUpdateState(t, ACC, { r \in t : r.minion_id = key })

RECURSIVE AcceptAllEach(_, _)
AcceptAllEach(t, todo) ==
    IF todo = <<>> THEN t
    ELSE AcceptAllEach(run_query(AcceptAllQuery(t, Head(todo))).table, Tail(todo))

accept_all(t) ==
    LET data == list_keys(t)
    IN IF data.raised # "" THEN data
       ELSE compat(list_keys(AcceptAllEach(t, data.value[PEND])))

\* Mutant of RejectArgs: without the flag, the state the query requires is
\* 'den' instead of 'acc'.
RejectArgsDenied(minion, include_accepted) ==
    IF include_accepted THEN <<REJ, minion, PEND, ACC>>
    ELSE <<REJ, minion, DEN>>

\* The arguments reject formats its query with.
RejectArgs(minion, include_accepted) ==
    IF include_accepted THEN <<REJ, minion, PEND, ACC>>
    ELSE <<REJ, minion, ACC>>

\* The loop of reject over the matched minions.
RECURSIVE RejectEach(_, _, _, _)
RejectEach(t, todo, include_accepted, faults) ==
    IF todo = <<>> THEN t
    ELSE RejectEach(
            run_query(Statement(
                TransitionQuery(t, RejectArgs(Head(todo), include_accepted),
                                include_accepted),
                t, Head(todo), faults)).table,
            Tail(todo), include_accepted, faults)

reject(t, match, match_dict, include_accepted, faults) ==
    LET matches == Matches(t, match, match_dict)
    IN IF matches.raised # "" THEN matches
       ELSE compat(Rematched(RejectEach(t, Items(matches.value), include_accepted,
                                        faults),
                             match, matches.value))

\* Mutant of RejectAllQuery: the state written is the name 'rejected'.
RejectAllQueryRejected(t, key) ==
    SqlUpdateState(t, "rejected",
                   { r \in t : r.state = PEND /\ r.minion_id = key })

\* The query of reject_all:
\* "UPDATE {0} set state='{1}' where state='{2}' and minion_id='{3}'"
RejectAllQuery(t, key) ==
    SqlUpdateState(t, REJ, { r \in t : r.state = PEND /\ r.minion_id = key })

RECURSIVE RejectAllEach(_, _)
RejectAllEach(t, todo) ==
    IF todo = <<>> THEN t
    ELSE RejectAllEach(run_query(RejectAllQuery(t, Head(todo))).table, Tail(todo))

reject_all(t) ==
    LET data == list_keys(t)
    IN IF data.raised # "" THEN data
       ELSE compat(list_keys(RejectAllEach(t, data.value[PEND])))

\* Mutant of DeleteQuery: the query deletes the minion only when it is pending.
DeleteQueryPending(t, key) ==
    SqlDelete(t, { r \in t : r.minion_id = key /\ r.state = PEND })

\* The query of delete_key: "DELETE FROM {0} where minion_id='{1}'"
DeleteQuery(t, key) == SqlDelete(t, { r \in t : r.minion_id = key })

\* The loop of delete_key: the table it leaves and `ret`, the success of the
\* last query (None when no query ran).
RECURSIVE DeleteEach(_, _, _, _)
DeleteEach(t, todo, result, faults) ==
    IF todo = <<>> THEN [table |-> t, ret |-> result]
    ELSE LET q == run_query(Statement(DeleteQuery(t, Head(todo)), t, Head(todo),
                                      faults))
         IN DeleteEach(q.table, Tail(todo), Some(q.ok), faults)

\* delete_key: raises AttributeError unless the last query succeeded; drops
\* the AES key file when rotate_aes_key is configured.  preserve_minions is
\* not read.
delete_key(t, match, match_dict, preserve_minions, options, faults) ==
    LET matches == Matches(t, match, match_dict)
        done == DeleteEach(t, Items(matches.value), None, faults)
    IN IF matches.raised # "" THEN matches
       ELSE IF done.ret = Some(TRUE)
       THEN [compat(Rematched(done.table, match, matches.value))
                EXCEPT !.dropfile = options.rotate_aes_key]
       ELSE Raised("AttributeError", <<>>, done.table)

\* Mutant of DeleteAllQuery: the query deletes the pending minions only.
DeleteAllQueryPending(t) == SqlDelete(t, { r \in t : r.state = PEND })

\* The query of delete_all: "DELETE FROM {0}"
DeleteAllQuery(t) == SqlDelete(t, { r \in t : TRUE })

delete_all(t, options) ==
    LET q == run_query(DeleteAllQuery(t))
    IN IF q.ok
       THEN [compat(list_keys(q.table)) EXCEPT !.dropfile = options.rotate_aes_key]
       ELSE Raised("AttributeError", <<q.data>>, q.table)

\* SELECT minion_id, minion_key from minions WHERE state=<state>
SqlSelectIdKey(t, state) ==
    LET rows == SelectSeq(RowsInOrder(t), LAMBDA r : r.state = state)
    IN [errno |-> None,
        rows |-> [i \in DOMAIN rows |-> <<rows[i].minion_id, rows[i].minion_key>>],
        table |-> t]

\* The loop "for entry in state_data: minion_keys[state][entry[0]] = entry[1]".
KeysOf(state_data) ==
    [id \in { state_data[i][1] : i \in DOMAIN state_data } |->
        (CHOOSE e \in Range(state_data) : e[1] = id)[2]]

\* key_str: for every state that name_match(match) returns, the key strings
\* of the rows the query for that state returns.
key_str(t, match) ==
    LET matched == name_match(t, match)
    IN IF matched.raised # "" THEN matched
       ELSE compat(Returned(
                [state \in DOMAIN matched.value |->
                    KeysOf(run_query(SqlSelectIdKey(t, state)).data)], t))

\* key_str_all: the same for every state of list_keys().
key_str_all(t) ==
    LET data == list_keys(t)
    IN IF data.raised # "" THEN data
       ELSE compat(Returned(
                [state \in DOMAIN data.value |->
                    KeysOf(run_query(SqlSelectIdKey(t, state)).data)], t))

\* match.startswith(prefix)
StartsWith(match, prefix) ==
    Len(match) >= Len(prefix) /\ SubSeq(match, 1, Len(prefix)) = prefix

\* The status names callers pass to list_status: 'acc', 'accepted', 'pre',
\* 'un', 'rej', 'den', and 'x', which is no status.  ('all' hands over to
\* all_keys, which merges in the local keys of salt.key.Key.)
StatusNames ==
    { <<"a", "c", "c">>, <<"a", "c", "c", "e", "p", "t", "e", "d">>,
      <<"p", "r", "e">>, <<"u", "n">>, <<"r", "e", "j">>, <<"d", "e", "n">>,
      <<"x">> }

\* A status name as a dict key.
DictKey(match) ==
    CASE match = <<"a", "c", "c">> -> "acc"
      [] match = <<"a", "c", "c", "e", "p", "t", "e", "d">> -> "accepted"
      [] match = <<"p", "r", "e">> -> "pre"
      [] match = <<"u", "n">> -> "un"
      [] match = <<"r", "e", "j">> -> "rej"
      [] match = <<"d", "e", "n">> -> "den"
      [] match = <<"x">> -> "x"

\* The state whose branch of list_status a status name takes (None: no
\* branch).
StatusBranch(match) ==
    IF StartsWith(match, <<"a", "c", "c">>) THEN Some(ACC)
    ELSE IF StartsWith(match, <<"p", "r", "e">>) \/ StartsWith(match, <<"u", "n">>)
    THEN Some(PEND)
    ELSE IF StartsWith(match, <<"r", "e", "j">>) THEN Some(REJ)
    ELSE IF StartsWith(match, <<"d", "e", "n">>) THEN Some(DEN)
    ELSE None

\* SELECT minion_id FROM minions where state=<state>
SqlSelectId(t, state) ==
    LET rows == SelectSeq(RowsInOrder(t), LAMBDA r : r.state = state)
    IN [errno |-> None, rows |-> [i \in DOMAIN rows |-> <<rows[i].minion_id>>],
        table |-> t]

\* list_status: minions starts as {state: []} for the branch taken, the ids
\* of the query are stored under the key `match`.  Without a branch the
\* query still has its placeholder {1} when it is formatted with the table
\* alone, which raises IndexError.
list_status(t, match) ==
    LET branch == StatusBranch(match)
        q == run_query(SqlSelectId(t, branch[1]))
    IN IF branch = None
       THEN Raised("IndexError", <<"tuple index out of range">>, t)
       ELSE IF q.ok
       THEN compat(Returned(
                DictSet([s \in {branch[1]} |-> <<>>], DictKey(match),
                        [i \in DOMAIN q.data |-> q.data[i][1]]), q.table))
       ELSE Raised("TypeError", <<"'bool' object has no attribute '__getitem__'">>,
                   q.table)

(***************************************************************************)
(* The state machine: a caller makes one call after the other.             *)
(***************************************************************************)
\* The matches callers pass: "w*", "*", "w.0*", "w0", "w-0", "w.0", "w*0",
\* "w0,wx", "0", "" and "*w".
Patterns ==
    { <<"w", "*">>, <<"*">>, <<"w", ".", "0", "*">>, <<"w", "0">>,
      <<"w", "-", "0">>, <<"w", ".", "0">>, <<"w", "*", "0">>,
      <<"w", "0", ",", "w", "x">>, <<"0">>, <<>>, <<"*", "w">> }

\* The match argument: a pattern, or None.
MatchArgs == { Some(p) : p \in Patterns } \cup {None}

\* The pre-gathered matches callers pass as match_dict:
\* {'pre': ['w0']} and {'acc': ['wx'], 'pre': ['w-0']}.
MatchDicts ==
    { [s \in {PEND} |-> << <<"w", "0">> >>],
      [s \in {ACC, PEND} |->
          IF s = ACC THEN << <<"w", "x">> >> ELSE << <<"w", "-", "0">> >>] }

\* The targets of accept, reject and delete_key: a match, a match_dict, or
\* neither.
Targets ==
    { [match |-> m, match_dict |-> None] : m \in MatchArgs }
    \cup { [match |-> None, match_dict |-> Some(d)] : d \in MatchDicts }

\* A call's outcome, as the caller sees it.
Outcome(r) ==
    [raised |-> r.raised, msg |-> r.msg, value |-> r.value,
     dropfile |-> r.dropfile]

\* No call is being looked at.
NoCall == [op |-> ""]
NoOutcome == Outcome(Returned(EmptyDict, {}))

\* The operators that work on the store, each over a connection of its own.
Operators == {"a", "b"}

\* An operator that is in no method.
Idle == [op |-> "", todo |-> <<>>, match |-> <<>>, include |-> FALSE]

\* The call is made: the table is what the method leaves.
Finish(c, r) ==
    /\ call = NoCall
    /\ minions' = r.table
    /\ old' = minions
    /\ call' = c
    /\ ret' = Outcome(r)
    /\ UNCHANGED <<opts, running>>

Init ==
    /\ minions = {}
    /\ old = minions
    /\ call = NoCall
    /\ ret = NoOutcome
    /\ opts \in [rotate_aes_key : BOOLEAN]
    /\ running = [p \in Operators |-> Idle]

\* add_key, with a key_state of the enum or without one (key_state='pre').
AddKey ==
    \E minion_id \in MinionIds, key \in SubmittedKeys,
       given \in {None} \cup { Some(s) : s \in StateEnum } :
        LET key_state == IF given = None THEN KeyStateDefault ELSE given[1]
        IN /\ key.key_type \in KeyTypeEnum
           /\ minion_id \in Ids(minions) \/ Cardinality(minions) < MaxRows
           /\ Finish([op |-> "add_key", minion_id |-> minion_id,
                      minion_key |-> key.minion_key, key_type |-> key.key_type,
                      key_state |-> key_state, omitted |-> given = None],
                     add_key(minions, minion_id, key.minion_key, key.key_type,
                             key_state))

ListKeys == Finish([op |-> "list_keys"], list_keys(minions))

NameMatch ==
    \E match \in Patterns :
        Finish([op |-> "name_match", match |-> match], name_match(minions, match))

\* accept, called with one of `targets` while the server fails the
\* statements of one of `faultsets`.
AcceptCall(targets, faultsets) ==
    \E target \in targets, include_rejected \in BOOLEAN, faults \in faultsets :
        Finish([op |-> "accept", match |-> target.match,
                match_dict |-> target.match_dict,
                include_rejected |-> include_rejected, faults |-> faults],
               accept(minions, target.match, target.match_dict, include_rejected,
                      faults))

Accept == AcceptCall(Targets, {{}})

AcceptAll == Finish([op |-> "accept_all"], accept_all(minions))

RejectCall(targets, faultsets) ==
    \E target \in targets, include_accepted \in BOOLEAN, faults \in faultsets :
        Finish([op |-> "reject", match |-> target.match,
                match_dict |-> target.match_dict,
                include_accepted |-> include_accepted, faults |-> faults],
               reject(minions, target.match, target.match_dict, include_accepted,
                      faults))

Reject == RejectCall(Targets, {{}})

RejectAll == Finish([op |-> "reject_all"], reject_all(minions))

DeleteKeyCall(targets, faultsets) ==
    \E target \in targets, preserve_minions \in BOOLEAN, faults \in faultsets :
        Finish([op |-> "delete_key", match |-> target.match,
                match_dict |-> target.match_dict,
                preserve_minions |-> preserve_minions, faults |-> faults],
               delete_key(minions, target.match, target.match_dict,
                          preserve_minions, opts, faults))

DeleteKey == DeleteKeyCall(Targets, {{}})

DeleteAll == Finish([op |-> "delete_all"], delete_all(minions, opts))

KeyStr ==
    \E match \in Patterns :
        Finish([op |-> "key_str", match |-> match], key_str(minions, match))

KeyStrAll == Finish([op |-> "key_str_all"], key_str_all(minions))

ListStatus ==
    \E match \in StatusNames :
        Finish([op |-> "list_status", match |-> match], list_status(minions, match))

\* The caller has seen the outcome and goes on to its next call.
Continue ==
    /\ call # NoCall
    /\ call' = NoCall
    /\ ret' = NoOutcome
    /\ old' = minions
    /\ UNCHANGED <<minions, opts, running>>

Next ==
    \/ AddKey
    \/ ListKeys
    \/ NameMatch
    \/ Accept
    \/ AcceptAll
    \/ Reject
    \/ RejectAll
    \/ DeleteKey
    \/ DeleteAll
    \/ KeyStr
    \/ KeyStrAll
    \/ ListStatus
    \/ Continue

Spec == Init /\ [][Next]_vars

(***************************************************************************)
(* The same store behind a server that fails statements: during a call,    *)
(* the statements for one minion fail.                                     *)
(***************************************************************************)
\* The matches of the calls made while statements fail: "w*" and "w0".
FaultTargets ==
    { [match |-> Some(p), match_dict |-> None] :
        p \in { <<"w", "*">>, <<"w", "0">> } }

\* The minions whose statements fail during a call: one of them.
FaultSets == { {id} : id \in MinionIds }

AcceptFailing == AcceptCall(FaultTargets, FaultSets)

RejectFailing == RejectCall(FaultTargets, FaultSets)

DeleteKeyFailing == DeleteKeyCall(FaultTargets, FaultSets)

NextFailing ==
    \/ AddKey
    \/ AcceptFailing
    \/ RejectFailing
    \/ DeleteKeyFailing
    \/ Continue

SpecFailing == Init /\ [][NextFailing]_vars

(***************************************************************************)
(* Two operators on the same table.  A method is a sequence of store      *)
(* calls (run_query); between two store calls of one operator the other   *)
(* operator's store calls may take place.                                  *)
(***************************************************************************)
\* The match the operators pass to accept and reject: "*".
InterleavedMatches == { <<"*">> }

\* The minions the operators add: "w0" and "wx".
InterleavedIds == { <<"w", "0">>, <<"w", "x">> }

\* The key the operators add minions with.
InterleavedKey == CHOOSE key \in SubmittedKeys : key.key_type = "zmq"

\* Operator p has made a store call of the method op: the table becomes t,
\* the outcome r (of a method that returns), and p goes on at `position`.
StoreCall(p, op, step, minion, include, t, r, position) ==
    /\ minions' = t
    /\ old' = minions
    /\ call' = [op |-> op, step |-> step, operator |-> p, minion |-> minion,
                include |-> include]
    /\ ret' = r
    /\ running' = [running EXCEPT ![p] = position]
    /\ UNCHANGED opts

\* add_key is one store call.
AddKeyStep(p) ==
    \E minion_id \in InterleavedIds, key_state \in StateEnum :
        LET r == add_key(minions, minion_id, InterleavedKey.minion_key,
                         InterleavedKey.key_type, key_state)
        IN /\ running[p] = Idle
           /\ minion_id \in Ids(minions) \/ Cardinality(minions) < MaxRows
           /\ StoreCall(p, "add_key", "insert", minion_id, FALSE, r.table,
                        Outcome(r), Idle)

\* accept_all and reject_all: "data = self.list_keys()".
AllSelect(p) ==
    \E op \in {"accept_all", "reject_all"} :
        LET data == list_keys(minions)
        IN /\ running[p] = Idle
           /\ data.raised = ""
           /\ StoreCall(p, op, "select", <<>>, FALSE, minions, ret,
                        [Idle EXCEPT !.op = op, !.todo = data.value[PEND]])

\* accept_all: the UPDATE for the next key of data['pre'].
AcceptAllUpdate(p) ==
    /\ running[p].op = "accept_all"
    /\ running[p].todo # <<>>
    /\ StoreCall(p, "accept_all", "update", Head(running[p].todo), FALSE,
                 run_query(AcceptAllQuery(minions, Head(running[p].todo))).table,
                 ret, [running[p] EXCEPT !.todo = Tail(@)])

\* reject_all: the UPDATE for the next key of data['pre'].
RejectAllUpdate(p) ==
    /\ running[p].op = "reject_all"
    /\ running[p].todo # <<>>
    /\ StoreCall(p, "reject_all", "update", Head(running[p].todo), FALSE,
                 run_query(RejectAllQuery(minions, Head(running[p].todo))).table,
                 ret, [running[p] EXCEPT !.todo = Tail(@)])

\* accept_all and reject_all: "return self.list_keys()".
AllReturn(p) ==
    /\ running[p].op \in {"accept_all", "reject_all"}
    /\ running[p].todo = <<>>
    /\ StoreCall(p, running[p].op, "return", <<>>, FALSE, minions,
                 Outcome(compat(list_keys(minions))), Idle)

\* accept and reject: "matches = self.name_match(match)".
MatchSelect(p) ==
    \E op \in {"accept", "reject"}, match \in InterleavedMatches,
       include \in BOOLEAN :
        LET matches == name_match(minions, match)
        IN /\ running[p] = Idle
           /\ matches.raised = ""
           /\ StoreCall(p, op, "select", <<>>, include, minions, ret,
                        [op |-> op, todo |-> Items(matches.value),
                         match |-> match, include |-> include])

\* accept: the UPDATE for the next matched minion.
AcceptUpdate(p) ==
    /\ running[p].op = "accept"
    /\ running[p].todo # <<>>
    /\ StoreCall(p, "accept", "update", Head(running[p].todo),
                 running[p].include,
                 run_query(TransitionQuery(
                     minions,
                     AcceptArgs(Head(running[p].todo), running[p].include),
                     running[p].include)).table,
                 ret, [running[p] EXCEPT !.todo = Tail(@)])

\* reject: the UPDATE for the next matched minion.
RejectUpdate(p) ==
    /\ running[p].op = "reject"
    /\ running[p].todo # <<>>
    /\ StoreCall(p, "reject", "update", Head(running[p].todo),
                 running[p].include,
                 run_query(TransitionQuery(
                     minions,
                     RejectArgs(Head(running[p].todo), running[p].include),
                     running[p].include)).table,
                 ret, [running[p] EXCEPT !.todo = Tail(@)])

\* accept and reject: "return self.name_match(match)".
MatchReturn(p) ==
    /\ running[p].op \in {"accept", "reject"}
    /\ running[p].todo = <<>>
    /\ StoreCall(p, running[p].op, "return", <<>>, running[p].include, minions,
                 Outcome(compat(name_match(minions, running[p].match))), Idle)

\* delete_all: the DELETE.
DeleteAllDelete(p) ==
    LET q == run_query(DeleteAllQuery(minions))
    IN /\ running[p] = Idle
       /\ minions # {}
       /\ q.ok
       /\ StoreCall(p, "delete_all", "delete", <<>>, FALSE, q.table, ret,
                    [Idle EXCEPT !.op = "delete_all"])

\* delete_all: "return self.list_keys()".
DeleteAllReturn(p) ==
    /\ running[p].op = "delete_all"
    /\ StoreCall(p, "delete_all", "return", <<>>, FALSE, minions,
                 [Outcome(compat(list_keys(minions)))
                     EXCEPT !.dropfile = opts.rotate_aes_key],
                 Idle)

NextInterleaved ==
    \E p \in Operators :
        \/ AddKeyStep(p)
        \/ AllSelect(p)
        \/ AcceptAllUpdate(p)
        \/ RejectAllUpdate(p)
        \/ AllReturn(p)
        \/ MatchSelect(p)
        \/ AcceptUpdate(p)
        \/ RejectUpdate(p)
        \/ MatchReturn(p)
        \/ DeleteAllDelete(p)
        \/ DeleteAllReturn(p)

SpecInterleaved == Init /\ [][NextInterleaved]_vars

(***************************************************************************)
(* Properties.                                                             *)
(***************************************************************************)
\* The state of a stored id.
StateOf(t, id) == RowOf(t, id).state

\* The ids of a table in a state.
IdsIn(t, state) == { r.minion_id : r \in { x \in t : x.state = state } }

\* The names in a state -> names dict.
NamesIn(d) == UNION { Range(d[k]) : k \in DOMAIN d }

\* The ids the matcher selects for a match on a table.
Selected(t, match) == NamesIn(name_match(t, match).value)

\* The last call is `op` with a match that the matcher resolved on the table
\* the call started with.
MatchCall(op) ==
    /\ call.op = op
    /\ call.match # None
    /\ name_match(old, call.match[1]).raised = ""

\* The full listing in the external names, for a table.
ExternalListing(t) ==
    [k \in {"minions", "minions_pre", "minions_rejected", "minions_denied"} |->
        SortedSeq(IdsIn(t, CASE k = "minions" -> ACC
                             [] k = "minions_pre" -> PEND
                             [] k = "minions_rejected" -> REJ
                             [] k = "minions_denied" -> DEN))]

C2_OverrideAccept ==
    \A x \in Ids(old) :
        ( /\ call.op = "accept"
          /\ call.match = Some(x)
          /\ call.include_rejected
          /\ StateOf(old, x) = REJ )
        => /\ ret.raised = ""
           /\ x \in Ids(minions)
           /\ StateOf(minions, x) = ACC

\* C3: after reject(match) without include_accepted, every selected minion
\* that was pending is rejected and every other selected minion keeps its
\* state.
C3_RejectPending ==
    (MatchCall("reject") /\ ~call.include_accepted) =>
        /\ ret.raised = ""
        /\ Ids(minions) = Ids(old)
        /\ \A id \in Selected(old, call.match[1]) :
              IF StateOf(old, id) = PEND
              THEN StateOf(minions, id) = REJ
              ELSE StateOf(minions, id) = StateOf(old, id)

\* C4: after reject(match, include_accepted=True), every selected minion that
\* was pending or accepted is rejected.
C4_RejectAccepted ==
    (MatchCall("reject") /\ call.include_accepted) =>
        /\ ret.raised = ""
        /\ Ids(minions) = Ids(old)
        /\ \A id \in Selected(old, call.match[1]) :
              StateOf(old, id) \in {PEND, ACC} => StateOf(minions, id) = REJ

\* C5: add_key for an id that is already stored raises AttributeError with
\* the message of error 1062 for that id and leaves every row as it was; no
\* two rows ever share an id.
C5_DuplicateAdd ==
    /\ \A r1, r2 \in minions : r1.minion_id = r2.minion_id => r1 = r2
    /\ (call.op = "add_key" /\ call.minion_id \in Ids(old)) =>
          /\ ret.raised = "AttributeError"
          /\ ret.msg = <<error_map[ER_DUP_ENTRY], call.minion_id>>
          /\ minions = old

\* C5 witness: an add_key for a stored id, with other key material, another
\* key type and another state than the stored row has, was refused.
C5_Witness ==
    /\ call.op = "add_key"
    /\ call.minion_id \in Ids(old)
    /\ call.minion_key # RowOf(old, call.minion_id).minion_key
    /\ call.key_type # RowOf(old, call.minion_id).key_type
    /\ call.key_state # RowOf(old, call.minion_id).state
    /\ Cardinality(old) = 2
    /\ ret.raised = "AttributeError"

C7_EmptySelection ==
    ( /\ call.op \in {"accept", "reject", "delete_key"}
      /\ \/ call.match = None /\ call.match_dict = None
         \/ /\ call.match # None
            /\ name_match(old, call.match[1]).raised = ""
            /\ Selected(old, call.match[1]) = {} )
    => /\ ret.raised = ""
       /\ ret.value = EmptyDict
       /\ minions = old

\* C8: accept_all() accepts every pending minion and changes no other row,
\* returns the full listing, whose pending bucket is empty, and a second
\* accept_all() changes nothing and returns the same listing.
C8_AcceptAll ==
    call.op = "accept_all" =>
        /\ ret.raised = ""
        /\ minions = { IF r.state = PEND THEN [r EXCEPT !.state = ACC] ELSE r :
                         r \in old }
        /\ ret.value = ExternalListing(minions)
        /\ ret.value["minions_pre"] = <<>>
        /\ accept_all(minions).table = minions
        /\ Outcome(accept_all(minions)) = ret

\* C8 witness: accept_all() found a pending and a rejected minion.
C8_Witness ==
    /\ call.op = "accept_all"
    /\ IdsIn(old, PEND) # {}
    /\ IdsIn(old, REJ) # {}
    /\ IdsIn(minions, ACC) = IdsIn(old, PEND)
    /\ ret.value["minions"] # <<>>

\* C9: after delete_all(), list_keys() returns the four buckets 'acc', 'pre',
\* 'rej' and 'den', each of them empty.
C9_DeleteAll ==
    call.op = "delete_all" =>
        /\ ret.raised = ""
        /\ list_keys(minions).raised = ""
        /\ list_keys(minions).value = [s \in {ACC, PEND, REJ, DEN} |-> <<>>]

\* C9 witness: delete_all() on a table with an accepted and a denied minion.
C9_Witness ==
    /\ call.op = "delete_all"
    /\ IdsIn(old, ACC) # {}
    /\ IdsIn(old, DEN) # {}
    /\ minions = {}

\* Whether name starts with prefix, and what follows are word characters.
PrefixThenWord(prefix, name) ==
    /\ Len(name) >= Len(prefix)
    /\ SubSeq(name, 1, Len(prefix)) = prefix
    /\ \A i \in (Len(prefix) + 1)..Len(name) : name[i] \in WordChars

\* C10: name_match(prefix + '*') selects exactly the stored names that start
\* with the literal prefix and go on with word characters only.
C10_TrailingStar ==
    (call.op = "name_match" /\ EndsWithStar(call.match)) =>
        /\ ret.raised = ""
        /\ NamesIn(ret.value) =
              { id \in Ids(old) :
                  PrefixThenWord(SubSeq(call.match, 1, Len(call.match) - 1), id) }

\* C11: name_match with a match that does not end with '*' (and is no
\* comma-separated list) returns exactly the stored names equal to the match.
C11_ExactMatch ==
    ( /\ call.op = "name_match"
      /\ ~EndsWithStar(call.match)
      /\ "," \notin Range(call.match)
      /\ ret.raised = "" )
    => NamesIn(ret.value) = { id \in Ids(old) : id = call.match }

\* C12: name_match with a comma-separated match returns, without raising and
\* under their states, the names that its items select one by one.
C12_CommaList ==
    (call.op = "name_match" /\ "," \in Range(call.match)) =>
        /\ ret.raised = ""
        /\ NamesIn(ret.value) =
              UNION { Selected(old, Split(call.match)[i]) :
                        i \in DOMAIN Split(call.match) }
        /\ \A s \in DOMAIN ret.value : Range(ret.value[s]) \subseteq IdsIn(old, s)

\* The key strings of a set of stored ids.
KeyStrings(t, ids) == [id \in ids |-> RowOf(t, id).minion_key]

\* C13: key_str(match) returns, per state, the key strings of exactly the
\* stored minions that the match selects; no other minion appears in it.
C13_KeyStrings ==
    (call.op = "key_str" /\ ret.raised = "") =>
        LET selected == Selected(old, call.match)
            states == { s \in StateEnum : selected \cap IdsIn(old, s) # {} }
        IN /\ DOMAIN ret.value = { trans_map[s] : s \in states }
           /\ \A s \in states :
                 ret.value[trans_map[s]] =
                    KeyStrings(old, selected \cap IdsIn(old, s))

\* C14: accept, reject and delete_key called with a match_dict return the
\* match_dict they were given (as it is, or with its keys translated), and
\* change no row whose id the match_dict does not name.
C14_MatchDict ==
    ( /\ call.op \in {"accept", "reject", "delete_key"}
      /\ call.match = None
      /\ call.match_dict # None )
    => /\ ret.raised = ""
       /\ \/ ret.value = call.match_dict[1]
          \/ ret.value = compat(Returned(call.match_dict[1], old)).value
       /\ \A r \in old :
             r.minion_id \notin NamesIn(call.match_dict[1]) => r \in minions

\* The external names of the states.
ExternalNames == { trans_map[s] : s \in StateEnum }

\* C15: every method behind compat returns a dict whose keys are external
\* names only; list_status returns the ids of the state asked for under its
\* external name, and accept_all, reject_all and delete_all return the full
\* listing in external names.
C15_ExternalNames ==
    ( /\ call.op \in {"list_status", "accept", "accept_all", "reject",
                      "reject_all", "delete_key", "delete_all", "key_str",
                      "key_str_all"}
      /\ ret.raised = "" )
    => /\ DOMAIN ret.value \subseteq ExternalNames
       /\ call.op = "list_status" =>
             ret.value =
                [k \in {trans_map[StatusBranch(call.match)[1]]} |->
                    SortedSeq(IdsIn(old, StatusBranch(call.match)[1]))]
       /\ call.op \in {"accept_all", "reject_all", "delete_all"} =>
             ret.value = ExternalListing(minions)

\* C16: with rotate_aes_key configured, a delete_key that removes a minion
\* drops the cached key material (salt.crypt.dropfile) exactly when
\* preserve_minions is not set.
C16_PreserveMinions ==
    ( /\ call.op = "delete_key"
      /\ minions # old
      /\ opts.rotate_aes_key )
    => (ret.dropfile <=> ~call.preserve_minions)

\* C17: accept(match) and reject(match), with or without their include flag,
\* change the state of selected minions only: every other row stays as it
\* was, and no row changes its key material or its key type.
C17_Frame ==
    (MatchCall("accept") \/ MatchCall("reject")) =>
        /\ Ids(minions) = Ids(old)
        /\ \A r \in old :
              /\ r.minion_id \notin Selected(old, call.match[1]) => r \in minions
              /\ RowOf(minions, r.minion_id).minion_key = r.minion_key
              /\ RowOf(minions, r.minion_id).key_type = r.key_type

\* What the last call would have returned, and the table it would have left,
\* had no statement failed.
WithoutFaults ==
    CASE call.op = "accept" ->
            accept(old, call.match, call.match_dict, call.include_rejected, {})
      [] call.op = "reject" ->
            reject(old, call.match, call.match_dict, call.include_accepted, {})
      [] call.op = "delete_key" ->
            delete_key(old, call.match, call.match_dict, call.preserve_minions,
                       opts, {})

\* C18: when the statement for one of several selected minions fails during
\* accept, reject or delete_key, the other selected minions are still handled and
\* stay handled, the call does not raise if the step of some selected minion
\* succeeded, and its outcome differs from the outcome without the failure.
C18_BestEffort ==
    ( /\ call.op \in {"accept", "reject", "delete_key"}
      /\ call.match # None
      /\ Cardinality(Selected(old, call.match[1])) > 1
      /\ call.faults \cap Selected(old, call.match[1]) # {} )
    => /\ \A id \in Ids(old) \ call.faults :
             /\ id \in Ids(minions) <=> id \in Ids(WithoutFaults.table)
             /\ id \in Ids(minions) =>
                   RowOf(minions, id) = RowOf(WithoutFaults.table, id)
       /\ Selected(old, call.match[1]) \ call.faults # {} => ret.raised = ""
       /\ ret # Outcome(WithoutFaults)

\* The names of a bucket occur once.
NoDuplicates(names) ==
    \A i, j \in DOMAIN names : names[i] = names[j] => i = j

\* C19: every stored minion has one row, with a state among 'pre', 'acc',
\* 'rej' and 'den'; list_keys returns exactly these four buckets, pairwise
\* disjoint, and together they hold exactly the stored ids.
C19_FourStates ==
    /\ \A r \in minions : r.state \in {PEND, ACC, REJ, DEN}
    /\ \A r1, r2 \in minions : r1.minion_id = r2.minion_id => r1.state = r2.state
    /\ LET listed == list_keys(minions)
       IN /\ listed.raised = ""
          /\ DOMAIN listed.value = {PEND, ACC, REJ, DEN}
          /\ \A s \in DOMAIN listed.value : NoDuplicates(listed.value[s])
          /\ \A s1, s2 \in DOMAIN listed.value :
                s1 # s2 => Range(listed.value[s1]) \cap Range(listed.value[s2]) = {}
          /\ NamesIn(listed.value) = Ids(minions)
          /\ \A s \in DOMAIN listed.value :
                Range(listed.value[s]) = IdsIn(minions, s)

\* C19 witness: reject_all has moved a pending minion to 'rej' while another
\* minion is stored in another state.
C19_Witness ==
    /\ call.op = "reject_all"
    /\ ret.raised = ""
    /\ IdsIn(old, PEND) # {}
    /\ IdsIn(minions, REJ) = IdsIn(old, PEND) \cup IdsIn(old, REJ)
    /\ Cardinality({ r.state : r \in minions }) = 2

\* C20: accept, accept_all, reject and reject_all leave the set of denied
\* minions as it is; over any call, a denied minion stays denied unless
\* delete_key or delete_all removes it.
C20_DeniedClosed ==
    /\ call.op \in {"accept", "accept_all", "reject", "reject_all"} =>
          IdsIn(minions, DEN) = IdsIn(old, DEN)
    /\ \A id \in IdsIn(old, DEN) :
          \/ id \in IdsIn(minions, DEN)
          \/ /\ call.op \in {"delete_key", "delete_all"}
             /\ id \notin Ids(minions)

\* C20 witness: the match of an accept or reject with its flag set selected
\* a denied minion, the call changed another row, and the denied minion is
\* still denied.
C20_Witness ==
    /\ call.op \in {"accept", "reject"}
    /\ call.match # None
    /\ IF call.op = "accept" THEN call.include_rejected ELSE call.include_accepted
    /\ Selected(old, call.match[1]) \cap IdsIn(old, DEN) # {}
    /\ minions # old
    /\ IdsIn(minions, DEN) = IdsIn(old, DEN)

\* C21: a store call by which accept_all, or accept without
\* include_rejected, updates a minion moves to 'acc' only minions that were
\* 'pre' when that store call was made, whatever the other operator has
\* done since the pending list was read.
C21_AcceptOnlyPending ==
    ( /\ call.op \in {"accept_all", "accept"}
      /\ call.step = "update"
      /\ ~call.include )
    => \A id \in Ids(minions) \cap Ids(old) :
          (StateOf(minions, id) = ACC /\ StateOf(old, id) # ACC)
             => StateOf(old, id) = PEND

====
